---- MODULE Spec2Model ----
(***************************************************************************)
(* Model of config/2mic_service.py: the APA102 LED driver (pixel buffer,   *)
(* set_pixel, show, cleanup), the per-client LEDsEventHandler (handle_event*)
(* and its two delayed coroutines) and the shutdown path of main().        *)
(*                                                                         *)
(* Concurrency is asyncio's: one thread, coroutines run until their next   *)
(* await.  Every action below is one such run-to-suspension segment.  The  *)
(* server reads the events of a client one at a time and awaits            *)
(* handle_event for each, so the handler is a single sequential process;   *)
(* the coroutines started with asyncio.create_task run beside it.  Delays  *)
(* are not measured: a sleeping coroutine may wake at any later step.  A   *)
(* bus transfer may raise during the flush of the shutdown path; transfers *)
(* made while serving succeed.                                             *)
(***************************************************************************)
EXTENDS Integers, Sequences, FiniteSets, TLC

VARIABLES
    num_led,        \* APA102.num_led
    global_brightness, \* APA102.global_brightness
    rgb,            \* APA102.rgb, the channel offsets
    leds,           \* APA102.leds, the pixel buffer (bytes)
    strip,          \* the transfers made by the last show(), in order
    spiOpen,        \* the SPI handle is open
    closes,         \* number of spi.close() calls made
    is_processing,  \* LEDsEventHandler.is_processing
    errTask,        \* state of the task referenced by self.error_task
    zombie,         \* an older, superseded error task still has to run its except branch
    offTasks,       \* pending turn_off_after_delay tasks, oldest first (TRUE = superseded)
    pc,             \* suspension point of handle_event
    flashIter,      \* loop counter of the satellite-connected flash
    loopRan,        \* the event loop ran a callback since handle_event last returned
    player,         \* the aplay subprocess
    mainpc,         \* position of main()
    lastEv,         \* the event being / last handled
    ret,            \* outcome of the last handle_event that returned
    last,           \* who pushed the last frame and what is_processing was then
    fired,          \* the last delayed action that applied its post-delay effect
    rev,            \* monitor of the error -> streaming-started scenario
    blackSince,     \* a black frame was pushed since the monitored error event
    idx,            \* events handled so far follow E2EScript up to idx (-1: they do not)
    frames,         \* colours pushed while the events follow E2EScript
    calls,          \* set_pixel calls made by the driver exercise
    ctor,           \* the arguments APA102 was constructed with
    call,           \* the last set_pixel call of the pixel exercise
    quiet           \* the satellite sends no further event

vars == <<num_led, global_brightness, rgb, leds, strip, spiOpen, closes, is_processing, errTask, zombie,
          offTasks, pc, flashIter, loopRan, player, mainpc, lastEv, ret, last,
          fired, rev, blackSince, idx, frames, calls, ctor, call, quiet>>

----------------------------------------------------------------------------
(* Bounds *)
MaxOff == 2          \* pending turn_off_after_delay tasks admitted at once
MaxLeds == 17        \* largest strip of the driver exercise (68 bytes: 32+32+4)
MaxCalls == 2        \* set_pixel calls of the driver exercise
MaxPix == 2          \* largest strip of the set_pixel exercise
MaxRequest == 32     \* largest brightness asked of the constructor there
MaxPercent == 104    \* largest bright_percent passed to set_pixel there

(* Program constants *)
NUM_LEDS == 3
MAX_BRIGHTNESS == 31
LED_START == 224
ChunkSize == 32
DefaultBrightness == 31
\* satellite-connected: "for _ in range(2)"
FlashRoundsShort == 2 - 1
FlashRounds == 2

RGB_MAP_Dup == [rgb |-> <<3, 2, 1>>, rbg |-> <<3, 1, 2>>, grb |-> <<2, 2, 1>>,
                gbr |-> <<2, 1, 3>>, brg |-> <<1, 3, 2>>, bgr |-> <<1, 2, 3>>]
RGB_MAP == [rgb |-> <<3, 2, 1>>, rbg |-> <<3, 1, 2>>, grb |-> <<2, 3, 1>>,
            gbr |-> <<2, 1, 3>>, brg |-> <<1, 3, 2>>, bgr |-> <<1, 2, 3>>]

_BLACK == <<0, 0, 0>>
_RED == <<255, 0, 0>>
_YELLOW == <<255, 255, 0>>
_BLUE == <<0, 0, 255>>
_GREEN == <<0, 255, 0>>

----------------------------------------------------------------------------
(* APA102 driver *)

Min(a, b) == IF a < b THEN a ELSE b

Floor100(x) == x \div 100
\* int(ceil(x / 100.0)) for a non-negative integer x
Ceil100(x) == (x + 99) \div 100

\* APA102.__init__: the brightness cap
ClampBrightness(gb) == IF gb > MAX_BRIGHTNESS THEN MAX_BRIGHTNESS ELSE gb

\* APA102.__init__: "RGB_MAP.get(order, RGB_MAP["rgb"])"
OrderOffsets(order) ==
    IF order \in DOMAIN RGB_MAP THEN RGB_MAP[order] ELSE RGB_MAP["rgb"]

\* APA102.__init__: the pixel buffer [LED_START, 0, 0, 0] * num_led
InitBuffer(n) == [k \in 1..(4 * n) |-> IF k % 4 = 1 THEN LED_START ELSE 0]

\* set_pixel without its "led_num < 0" return: a negative list index of the
\* code counts from the end of the buffer
SetPixelNoLower(buf, n, gb, order, led_num, red, green, blue, bright_percent) ==
    IF led_num >= n THEN buf
    ELSE LET brightness == Ceil100(bright_percent * gb)
             ledstart == (brightness % 32) + LED_START
             start_index == 4 * led_num
             at(k) == IF k < 0 THEN Len(buf) + k + 1 ELSE k + 1
             b0 == [buf EXCEPT ![at(start_index)] = ledstart]
             b1 == [b0 EXCEPT ![at(start_index + order[1])] = red]
             b2 == [b1 EXCEPT ![at(start_index + order[2])] = green]
         IN  [b2 EXCEPT ![at(start_index + order[3])] = blue]

\* APA102.set_pixel; buffer offset k of the code is element k+1 here
SetPixel(buf, n, gb, order, led_num, red, green, blue, bright_percent) ==
    IF led_num < 0 THEN buf
    ELSE IF led_num >= n THEN buf
    ELSE LET brightness == Ceil100(bright_percent * gb)
             ledstart == (brightness % 32) + LED_START
             start_index == 4 * led_num
             b0 == [buf EXCEPT ![start_index + 1] = ledstart]
             b1 == [b0 EXCEPT ![start_index + order[1] + 1] = red]
             b2 == [b1 EXCEPT ![start_index + order[2] + 1] = green]
         IN  [b2 EXCEPT ![start_index + order[3] + 1] = blue]

\* the loop of show with "data = data[33:]": a byte is lost after each chunk
RECURSIVE ChunksSkip(_)
ChunksSkip(data) ==
    IF data = <<>> THEN <<>>
    ELSE <<SubSeq(data, 1, Min(ChunkSize, Len(data)))>>
         \o ChunksSkip(SubSeq(data, ChunkSize + 2, Len(data)))

\* the while loop of APA102.show: data[:32] is sent, data = data[32:]
RECURSIVE Chunks(_)
Chunks(data) ==
    IF data = <<>> THEN <<>>
    ELSE <<SubSeq(data, 1, Min(ChunkSize, Len(data)))>>
         \o Chunks(SubSeq(data, ChunkSize + 1, Len(data)))

clock_start_frame == <<0, 0, 0, 0>>
clock_end_frame == <<255, 255, 255, 255>>

\* APA102.show: the transfers it makes, in order
ShowTransfers(buf) == <<clock_start_frame>> \o Chunks(buf) \o <<clock_end_frame>>

\* LEDsEventHandler.color: set_pixel for i in range(NUM_LEDS)
RECURSIVE ColorFrom(_, _, _)
ColorFrom(buf, i, c) ==
    IF i >= NUM_LEDS THEN buf
    ELSE ColorFrom(SetPixel(buf, num_led, global_brightness, rgb,
                            i, c[1], c[2], c[3], 100), i + 1, c)

PaintTail(buf, c) == ColorFrom(buf, 1, c)
Paint(buf, c) == ColorFrom(buf, 0, c)

\* the strip shows colour c on every LED
Shows(c) == strip = ShowTransfers(Paint(InitBuffer(NUM_LEDS), c))

\* every LED of the pixel buffer is (0, 0, 0)
AllOff(buf) == \A k \in DOMAIN buf : k % 4 # 1 => buf[k] = 0

----------------------------------------------------------------------------
(* Events of the satellite, as handle_event tells them apart *)

Ev(t, c) == [type |-> t, code |-> c]
Events == { Ev("detection", ""), Ev("error", "stt-no-text-recognized"),
            Ev("error", "other"), Ev("streaming-started", ""),
            Ev("synthesize", ""), Ev("run-satellite", ""),
            Ev("satellite-connected", ""), Ev("satellite-disconnected", ""),
            Ev("other", "") }

NoEvent == Ev("none", "")

E2EScript == << Ev("satellite-connected", ""), Ev("detection", ""),
                Ev("streaming-started", ""), Ev("synthesize", ""),
                Ev("run-satellite", "") >>

E2EColours == << _GREEN, _BLACK, _GREEN, _BLACK, _BLUE, _YELLOW, _BLACK >>

----------------------------------------------------------------------------
(* asyncio bookkeeping *)

\* tasks whose next step is already queued in the event loop (call_soon):
\* a created task, or a task that was cancelled
Ready == zombie \/ errTask \in {"created", "cancelling", "cancel0"}

\* "if self.error_task and not self.error_task.done(): self.error_task.cancel()"
CancelErrorTask(t) ==
    IF t = "created" THEN "cancel0"
    ELSE IF t = "sleeping" THEN "cancelling"
    ELSE t

\* handle_event never cancels the task made for "synthesize": it is not stored
CancelOffTasks(ts) == ts

\* every pending turn-off task is older than the event now handled
Supersede(ts) == [k \in DOMAIN ts |-> TRUE]

\* play_sound: "except Exception" logs and swallows a failure of the player
PlaySoundResult(failed) == IF failed THEN "logged" ELSE "ok"

\* handle_event: "return True" unless play_sound let an exception through
HandlerResult(cue) == IF cue = "propagated" THEN "raised" ELSE "True"

IsStreamingAny(e, processing) == e.type = "streaming-started"
\* "elif StreamingStarted.is_type(event.type) and self.is_processing"
IsStreaming(e, processing) == e.type = "streaming-started" /\ processing

CancelColourYellow(processing) == _YELLOW
\* the colour the cancellation branch of handle_no_text_error restores
CancelColour(processing) == IF processing THEN _YELLOW ELSE _BLACK

\* the colour handle_no_text_error sets when its 5 s sleep ends
RevertColour(processing) == _BLACK

----------------------------------------------------------------------------
(* Pieces shared by the actions *)

\* LEDsEventHandler.color(c): NUM_LEDS set_pixel calls, then show()
Display(c, by, proc) ==
    /\ leds' = Paint(leds, c)
    /\ strip' = ShowTransfers(Paint(leds, c))
    /\ last' = [by |-> by, proc |-> proc]

NoDisplay == UNCHANGED <<leds, strip, last>>

\* frames of the scripted scenario, kept while the events follow the script
Log(c, i) == frames' = IF i >= 0 THEN Append(frames, c) ELSE <<>>
NoLog(i) == frames' = IF i >= 0 THEN frames ELSE <<>>

\* handle_event returns
Return(e, cue, audio, blue, proc) ==
    ret' = [type |-> e.type, value |-> HandlerResult(cue), audio |-> audio,
            blue |-> blue, proc |-> proc]

BlueStrip == ShowTransfers(Paint(InitBuffer(NUM_LEDS), _BLUE))

UNCH_driver ==
    UNCHANGED <<num_led, global_brightness, rgb, spiOpen, closes, calls, ctor,
                call, quiet>>

----------------------------------------------------------------------------
(* LEDsEventHandler.handle_event: from the read of an event to the first   *)
(* await of its branch, or to "return True"                                *)

HandleEvent(e) ==
    LET cancelled == CancelErrorTask(errTask)
        older == Supersede(CancelOffTasks(offTasks))
        isNoText == e.type = "error" /\ e.code = "stt-no-text-recognized"
        idxN == IF idx >= 0 /\ idx < Len(E2EScript) /\ e = E2EScript[idx + 1]
                THEN idx + 1 ELSE -1
        revN == IF isNoText /\ is_processing THEN "err"
                ELSE IF e.type = "streaming-started" /\ rev = "err"
                        /\ errTask \in {"created", "sleeping"} THEN "ss"
                ELSE "off"
        carried == IF revN = "ss" THEN blackSince ELSE FALSE
    IN
    /\ mainpc = "serving"
    /\ pc = "idle"
    /\ ~quiet
    /\ loopRan => ~Ready
    /\ e.type = "synthesize" => Len(offTasks) < MaxOff
    /\ lastEv' = e
    /\ idx' = idxN
    /\ rev' = revN
    /\ loopRan' = FALSE
    /\ UNCHANGED <<fired, player, mainpc>>
    /\ UNCH_driver
    /\ IF e.type = "detection" THEN
          /\ Display(_BLUE, "handler", is_processing)
          /\ Log(_BLUE, idxN)
          /\ is_processing' = TRUE
          /\ errTask' = cancelled
          /\ offTasks' = older
          /\ blackSince' = carried
          /\ UNCHANGED <<zombie, flashIter>>
          /\ \/ /\ pc' = "exec"
                /\ UNCHANGED ret
             \/ /\ pc' = "idle"
                /\ Return(e, PlaySoundResult(TRUE), "failed",
                          strip' = BlueStrip, TRUE)
       ELSE IF isNoText THEN
          /\ errTask' = "created"
          /\ zombie' = (zombie \/ cancelled = "cancelling")
          /\ offTasks' = older
          /\ blackSince' = carried
          /\ pc' = "idle"
          /\ Return(e, "none", "na", strip = BlueStrip, is_processing)
          /\ NoDisplay
          /\ NoLog(idxN)
          /\ UNCHANGED <<is_processing, flashIter>>
       ELSE IF IsStreaming(e, is_processing) THEN
          /\ Display(_YELLOW, "handler", is_processing)
          /\ Log(_YELLOW, idxN)
          /\ errTask' = cancelled
          /\ offTasks' = older
          /\ blackSince' = carried
          /\ pc' = "idle"
          /\ Return(e, "none", "na", FALSE, is_processing)
          /\ UNCHANGED <<is_processing, zombie, flashIter>>
       ELSE IF e.type = "synthesize" THEN
          /\ errTask' = cancelled
          /\ offTasks' = Append(older, FALSE)
          /\ blackSince' = carried
          /\ pc' = "idle"
          /\ Return(e, "none", "na", strip = BlueStrip, is_processing)
          /\ NoDisplay
          /\ NoLog(idxN)
          /\ UNCHANGED <<is_processing, zombie, flashIter>>
       ELSE IF e.type = "run-satellite" THEN
          /\ is_processing' = FALSE
          /\ Display(_BLACK, "handler", FALSE)
          /\ Log(_BLACK, idxN)
          /\ errTask' = cancelled
          /\ offTasks' = older
          /\ blackSince' = carried
          /\ pc' = "idle"
          /\ Return(e, "none", "na", FALSE, FALSE)
          /\ UNCHANGED <<zombie, flashIter>>
       ELSE IF e.type = "satellite-connected" THEN
          /\ Display(_GREEN, "handler", is_processing)
          /\ Log(_GREEN, idxN)
          /\ errTask' = cancelled
          /\ offTasks' = older
          /\ blackSince' = carried
          /\ pc' = "flash_on"
          /\ flashIter' = 0
          /\ UNCHANGED <<is_processing, zombie, ret>>
       ELSE IF e.type = "satellite-disconnected" THEN
          /\ Display(_RED, "handler", is_processing)
          /\ Log(_RED, idxN)
          /\ errTask' = cancelled
          /\ offTasks' = older
          /\ blackSince' = carried
          /\ pc' = "disc"
          /\ UNCHANGED <<is_processing, zombie, flashIter, ret>>
       ELSE
          /\ errTask' = cancelled
          /\ offTasks' = older
          /\ blackSince' = carried
          /\ pc' = "idle"
          /\ Return(e, "none", "na", strip = BlueStrip, is_processing)
          /\ NoDisplay
          /\ NoLog(idxN)
          /\ UNCHANGED <<is_processing, zombie, flashIter>>

Receive == \E e \in Events : HandleEvent(e)

----------------------------------------------------------------------------
(* Resumptions of handle_event.  A coroutine that awaited resumes only     *)
(* after every task step queued before its wake-up has run (~Ready).       *)

\* play_sound: create_subprocess_exec succeeded, communicate() is awaited
SoundStarted ==
    /\ mainpc = "serving" /\ pc = "exec" /\ ~Ready
    /\ player' = "running"
    /\ pc' = "communicate"
    /\ UNCHANGED <<leds, strip, last, is_processing, errTask, zombie, offTasks,
                   flashIter, loopRan, mainpc, lastEv, ret, fired, rev,
                   blackSince, idx, frames>>
    /\ UNCH_driver

\* play_sound: create_subprocess_exec raised; the exception is logged
SoundStartFailed ==
    /\ mainpc = "serving" /\ pc = "exec" /\ ~Ready
    /\ pc' = "idle"
    /\ loopRan' = FALSE
    /\ Return(lastEv, PlaySoundResult(TRUE), "failed", strip = BlueStrip,
              is_processing)
    /\ UNCHANGED <<leds, strip, last, is_processing, errTask, zombie, offTasks,
                   flashIter, player, mainpc, lastEv, fired, rev, blackSince,
                   idx, frames>>
    /\ UNCH_driver

\* the aplay process ends, with or without an error
PlayerExit(ok) ==
    /\ player = "running"
    /\ player' = IF ok THEN "exited" ELSE "exited-error"
    /\ UNCHANGED <<leds, strip, last, is_processing, errTask, zombie, offTasks,
                   pc, flashIter, loopRan, mainpc, lastEv, ret, fired, rev,
                   blackSince, idx, frames>>
    /\ UNCH_driver

\* play_sound: communicate() returns once the player has ended
SoundFinished ==
    /\ mainpc = "serving" /\ pc = "communicate" /\ ~Ready
    /\ player \in {"exited", "exited-error"}
    /\ player' = "none"
    /\ pc' = "idle"
    /\ loopRan' = FALSE
    /\ Return(lastEv, PlaySoundResult(FALSE),
              IF player = "exited" THEN "played" ELSE "failed",
              strip = BlueStrip, is_processing)
    /\ UNCHANGED <<leds, strip, last, is_processing, errTask, zombie, offTasks,
                   flashIter, mainpc, lastEv, fired, rev, blackSince, idx,
                   frames>>
    /\ UNCH_driver

\* satellite-connected: asyncio.sleep(0.2) after color(_GREEN) ends
FlashOff ==
    /\ mainpc = "serving" /\ pc = "flash_on" /\ ~Ready
    /\ Display(_BLACK, "handler", is_processing)
    /\ Log(_BLACK, idx)
    /\ blackSince' = (blackSince \/ rev # "off")
    /\ pc' = "flash_off"
    /\ UNCHANGED <<is_processing, errTask, zombie, offTasks, flashIter, loopRan,
                   player, mainpc, lastEv, ret, fired, rev, idx>>
    /\ UNCH_driver

\* satellite-connected: asyncio.sleep(0.2) after color(_BLACK) ends
FlashNext ==
    /\ mainpc = "serving" /\ pc = "flash_off" /\ ~Ready
    /\ IF flashIter + 1 < FlashRounds
       THEN /\ Display(_GREEN, "handler", is_processing)
            /\ Log(_GREEN, idx)
            /\ flashIter' = flashIter + 1
            /\ pc' = "flash_on"
            /\ UNCHANGED <<ret, loopRan>>
       ELSE /\ NoDisplay
            /\ NoLog(idx)
            /\ flashIter' = 0
            /\ pc' = "idle"
            /\ loopRan' = FALSE
            /\ Return(lastEv, "none", "na", FALSE, is_processing)
    /\ UNCHANGED <<is_processing, errTask, zombie, offTasks, player, mainpc,
                   lastEv, fired, rev, blackSince, idx>>
    /\ UNCH_driver

\* satellite-disconnected: asyncio.sleep(0.5) ends
DiscOff ==
    /\ mainpc = "serving" /\ pc = "disc" /\ ~Ready
    /\ Display(_BLACK, "handler", is_processing)
    /\ Log(_BLACK, idx)
    /\ blackSince' = (blackSince \/ rev # "off")
    /\ is_processing' = FALSE
    /\ pc' = "idle"
    /\ loopRan' = FALSE
    /\ Return(lastEv, "none", "na", FALSE, FALSE)
    /\ UNCHANGED <<errTask, zombie, offTasks, flashIter, player, mainpc,
                   lastEv, fired, rev, idx>>
    /\ UNCH_driver

----------------------------------------------------------------------------
(* The delayed coroutines, run by the event loop while handle_event is     *)
(* suspended or between two events                                         *)

Ran == loopRan' = (loopRan \/ pc = "idle")

\* handle_no_text_error starts: color(_RED), then asyncio.sleep(5).  A task
\* cancelled earlier was queued earlier and runs first.
ErrStart ==
    /\ mainpc = "serving" /\ errTask = "created" /\ ~zombie
    /\ Display(_RED, "errstart", is_processing)
    /\ Log(_RED, idx)
    /\ errTask' = "sleeping"
    /\ Ran
    /\ UNCHANGED <<is_processing, zombie, offTasks, pc, flashIter, player,
                   mainpc, lastEv, ret, fired, rev, blackSince, idx>>
    /\ UNCH_driver

\* handle_no_text_error: the 5 s sleep ends
ErrFire ==
    /\ mainpc = "serving" /\ errTask = "sleeping" /\ ~Ready
    /\ Display(RevertColour(is_processing), "errfire", is_processing)
    /\ Log(RevertColour(is_processing), idx)
    /\ blackSince' = (blackSince \/ (rev # "off"
                                     /\ RevertColour(is_processing) = _BLACK))
    /\ is_processing' = FALSE
    /\ errTask' = "done"
    /\ fired' = IF lastEv = Ev("error", "stt-no-text-recognized")
                THEN "fresh" ELSE "stale"
    /\ Ran
    /\ UNCHANGED <<zombie, offTasks, pc, flashIter, player, mainpc, lastEv,
                   ret, rev, idx>>
    /\ UNCH_driver

\* handle_no_text_error: CancelledError is raised at the sleep
ErrCancelled ==
    /\ mainpc = "serving" /\ errTask = "cancelling" /\ ~zombie
    /\ Display(CancelColour(is_processing), "errcancel", is_processing)
    /\ Log(CancelColour(is_processing), idx)
    /\ blackSince' = (blackSince \/ (rev # "off"
                                     /\ CancelColour(is_processing) = _BLACK))
    /\ errTask' = "done"
    /\ Ran
    /\ UNCHANGED <<is_processing, zombie, offTasks, pc, flashIter, player,
                   mainpc, lastEv, ret, fired, rev, idx>>
    /\ UNCH_driver

\* a task cancelled before its first step ends without running its body
ErrDropped ==
    /\ mainpc = "serving" /\ errTask = "cancel0" /\ ~zombie
    /\ errTask' = "done"
    /\ Ran
    /\ UNCHANGED <<leds, strip, last, is_processing, zombie, offTasks, pc,
                   flashIter, player, mainpc, lastEv, ret, fired, rev,
                   blackSince, idx, frames>>
    /\ UNCH_driver

\* the cancellation branch of an error task that self.error_task no longer
\* references
ZombieCancelled ==
    /\ mainpc = "serving" /\ zombie
    /\ Display(CancelColour(is_processing), "errcancel", is_processing)
    /\ Log(CancelColour(is_processing), idx)
    /\ blackSince' = (blackSince \/ (rev # "off"
                                     /\ CancelColour(is_processing) = _BLACK))
    /\ zombie' = FALSE
    /\ Ran
    /\ UNCHANGED <<is_processing, errTask, offTasks, pc, flashIter, player,
                   mainpc, lastEv, ret, fired, rev, idx>>
    /\ UNCH_driver

\* turn_off_after_delay: the 5 s sleep of the oldest pending task ends
OffFire ==
    /\ mainpc = "serving" /\ offTasks # <<>> /\ ~Ready
    /\ is_processing' = FALSE
    /\ Display(_BLACK, "turnoff", FALSE)
    /\ Log(_BLACK, idx)
    /\ blackSince' = (blackSince \/ rev # "off")
    /\ offTasks' = Tail(offTasks)
    /\ fired' = IF Head(offTasks) THEN "stale" ELSE "fresh"
    /\ Ran
    /\ UNCHANGED <<errTask, zombie, pc, flashIter, player, mainpc, lastEv,
                   ret, rev, idx>>
    /\ UNCH_driver

----------------------------------------------------------------------------
(* main(): server.run() ends and the finally block runs, without an await  *)

ExitKinds == {"stopped", "interrupt", "error"}

\* APA102.cleanup
Cleanup(n) == n + 1

\* sent is the number of transfers of the flush that succeed; a transfer
\* that raises ends the finally block before leds.cleanup()
Shutdown(kind, sent) ==
    LET off == Paint(leds, _BLACK)
        full == ShowTransfers(off)
        flushed == sent = Len(full)
    IN
    /\ mainpc = "serving"
    /\ sent \in 0..Len(full)
    /\ leds' = off
    /\ strip' = SubSeq(full, 1, sent)
    /\ last' = [by |-> "main", proc |-> is_processing]
    /\ closes' = IF flushed THEN Cleanup(closes) ELSE closes
    /\ spiOpen' = ~flushed
    /\ mainpc' = IF flushed /\ kind # "error" THEN "returned" ELSE "raised"
    /\ UNCHANGED <<num_led, global_brightness, rgb, calls, ctor, call, quiet,
                   is_processing, errTask, zombie, offTasks, pc, flashIter,
                   loopRan, player, lastEv, ret, fired, rev, blackSince, idx,
                   frames>>

Exit ==
    \E kind \in ExitKinds, sent \in 0..Len(ShowTransfers(leds)) :
        Shutdown(kind, sent)

----------------------------------------------------------------------------
(* asyncio.run(main()) after main() has ended: every task still pending is *)
(* cancelled and run until it ends                                         *)

Ended == mainpc \in {"returned", "raised"}

\* show() on a released bus handle raises at its first transfer; on a handle
\* the finally block left open the transfers may or may not succeed
LateShow(buf, ok) == IF spiOpen /\ ok THEN ShowTransfers(buf) ELSE strip

\* the cancellation branch of a started error task: color(), after main()
TeardownErr(ok) ==
    /\ Ended /\ ~zombie
    /\ errTask \in {"sleeping", "cancelling"}
    /\ leds' = Paint(leds, CancelColour(is_processing))
    /\ strip' = LateShow(Paint(leds, CancelColour(is_processing)), ok)
    /\ last' = [by |-> "teardown", proc |-> is_processing]
    /\ errTask' = "done"
    /\ UNCHANGED <<is_processing, zombie, offTasks, pc, flashIter, loopRan,
                   player, mainpc, lastEv, ret, fired, rev, blackSince, idx,
                   frames>>
    /\ UNCH_driver

\* the same for an error task self.error_task no longer references
TeardownZombie(ok) ==
    /\ Ended /\ zombie
    /\ leds' = Paint(leds, CancelColour(is_processing))
    /\ strip' = LateShow(Paint(leds, CancelColour(is_processing)), ok)
    /\ last' = [by |-> "teardown", proc |-> is_processing]
    /\ zombie' = FALSE
    /\ UNCHANGED <<is_processing, errTask, offTasks, pc, flashIter, loopRan,
                   player, mainpc, lastEv, ret, fired, rev, blackSince, idx,
                   frames>>
    /\ UNCH_driver

\* an error task that never started ends without running its body
TeardownDropped ==
    /\ Ended /\ ~zombie
    /\ errTask \in {"created", "cancel0"}
    /\ errTask' = "done"
    /\ UNCHANGED <<leds, strip, last, is_processing, zombie, offTasks, pc,
                   flashIter, loopRan, player, mainpc, lastEv, ret, fired, rev,
                   blackSince, idx, frames>>
    /\ UNCH_driver

\* turn_off_after_delay has no except branch: cancelled in its sleep, it ends
TeardownOff ==
    /\ Ended /\ offTasks # <<>>
    /\ offTasks' = Tail(offTasks)
    /\ UNCHANGED <<leds, strip, last, is_processing, errTask, zombie, pc,
                   flashIter, loopRan, player, mainpc, lastEv, ret, fired, rev,
                   blackSince, idx, frames>>
    /\ UNCH_driver

\* a handle_event suspended in play_sound or in a flash is cancelled there
TeardownHandler ==
    /\ Ended /\ pc \notin {"idle", "cancelled"}
    /\ pc' = "cancelled"
    /\ UNCHANGED <<leds, strip, last, is_processing, errTask, zombie, offTasks,
                   flashIter, loopRan, player, mainpc, lastEv, ret, fired, rev,
                   blackSince, idx, frames>>
    /\ UNCH_driver

Teardown ==
    \/ \E ok \in BOOLEAN : TeardownErr(ok)
    \/ \E ok \in BOOLEAN : TeardownZombie(ok)
    \/ TeardownDropped
    \/ TeardownOff
    \/ TeardownHandler

----------------------------------------------------------------------------
(* The service: main() has built the driver and cleared the strip, and one *)
(* client has connected (LEDsEventHandler.__init__)                        *)

NoCall == [done |-> FALSE, led_num |-> 0, colour |-> _BLACK, bp |-> 0,
           before |-> <<>>]

\* LEDsEventHandler.__init__, and the bookkeeping of the properties
InitReactor ==
    /\ spiOpen = TRUE
    /\ closes = 0
    /\ is_processing = FALSE
    /\ errTask = "none"
    /\ zombie = FALSE
    /\ offTasks = <<>>
    /\ pc = "idle"
    /\ flashIter = 0
    /\ loopRan = FALSE
    /\ player = "none"
    /\ lastEv = NoEvent
    /\ ret = [type |-> "none", value |-> "True", audio |-> "na",
              blue |-> FALSE, proc |-> FALSE]
    /\ last = [by |-> "init", proc |-> FALSE]
    /\ fired = "none"
    /\ rev = "off"
    /\ blackSince = FALSE
    /\ idx = 0
    /\ frames = <<>>
    /\ calls = 0
    /\ call = NoCall
    /\ quiet = FALSE

Init ==
    /\ num_led = NUM_LEDS
    /\ ctor = [order |-> "rgb", brightness |-> DefaultBrightness]
    /\ global_brightness = ClampBrightness(DefaultBrightness)
    /\ rgb = OrderOffsets("rgb")
    /\ leds = Paint(InitBuffer(NUM_LEDS), _BLACK)
    /\ strip = ShowTransfers(Paint(InitBuffer(NUM_LEDS), _BLACK))
    /\ mainpc = "serving"
    /\ InitReactor

Next ==
    \/ Receive
    \/ SoundStarted
    \/ SoundStartFailed
    \/ \E ok \in BOOLEAN : PlayerExit(ok)
    \/ SoundFinished
    \/ FlashOff
    \/ FlashNext
    \/ DiscOff
    \/ ErrStart
    \/ ErrFire
    \/ ErrCancelled
    \/ ErrDropped
    \/ ZombieCancelled
    \/ OffFire
    \/ Exit
    \/ Teardown

Spec == Init /\ [][Next]_vars

----------------------------------------------------------------------------
(* The service when the satellite may fall silent.  The event loop runs    *)
(* every task whose next step is queued and every timer that has expired,  *)
(* hence the weak fairness on the steps of the delayed tasks.              *)

GoQuiet ==
    /\ mainpc = "serving" /\ ~quiet
    /\ quiet' = TRUE
    /\ UNCHANGED <<num_led, global_brightness, rgb, leds, strip, spiOpen,
                   closes, calls, ctor, call, last>>
    /\ UNCHANGED <<is_processing, errTask, zombie, offTasks, pc, flashIter,
                   loopRan, player, mainpc, lastEv, ret, fired, rev,
                   blackSince, idx, frames>>

TaskSteps ==
    \/ ErrStart
    \/ ErrFire
    \/ ErrCancelled
    \/ ErrDropped
    \/ ZombieCancelled
    \/ OffFire

NextLive ==
    \/ Next
    \/ GoQuiet

SpecLive == Init /\ [][NextLive]_vars /\ WF_vars(TaskSteps)

----------------------------------------------------------------------------
(* Several clients: main() hands the one APA102 object to every            *)
(* LEDsEventHandler the server makes.  What another handler or its tasks   *)
(* do to the driver is a call of color(), which has no await.              *)

OtherColours == {_BLACK, _GREEN, _YELLOW}

OtherColor(c) ==
    /\ mainpc = "serving"
    /\ Display(c, "other", is_processing)
    /\ UNCHANGED <<is_processing, errTask, zombie, offTasks, pc, flashIter,
                   loopRan, player, mainpc, lastEv, ret, fired, rev,
                   blackSince, idx, frames>>
    /\ UNCH_driver

NextShared ==
    \/ Next
    \/ \E c \in OtherColours : OtherColor(c)

SpecShared == Init /\ [][NextShared]_vars

----------------------------------------------------------------------------
(* The driver on its own: strips of 0..MaxLeds LEDs, a few set_pixel calls *)
(* and show()                                                              *)

DrvColours == { <<1, 2, 3>>, <<255, 128, 0>> }

InitDriver ==
    /\ num_led \in 0..MaxLeds
    /\ ctor = [order |-> "rgb", brightness |-> DefaultBrightness]
    /\ global_brightness = ClampBrightness(DefaultBrightness)
    /\ rgb = OrderOffsets("rgb")
    /\ leds = InitBuffer(num_led)
    /\ strip = <<>>
    /\ mainpc = "driver"
    /\ InitReactor

UNCH_reactor ==
    UNCHANGED <<is_processing, errTask, zombie, offTasks, pc, flashIter,
                loopRan, player, mainpc, lastEv, ret, fired, rev, blackSince,
                idx, frames, quiet>>

DrvSetPixel(i, c) ==
    /\ mainpc = "driver"
    /\ calls < MaxCalls
    /\ leds' = SetPixel(leds, num_led, global_brightness, rgb, i,
                        c[1], c[2], c[3], 100)
    /\ calls' = calls + 1
    /\ last' = [by |-> "set_pixel", proc |-> FALSE]
    /\ UNCHANGED <<num_led, global_brightness, rgb, strip, spiOpen, closes,
                   ctor, call>>
    /\ UNCH_reactor

DrvShow ==
    /\ mainpc = "driver"
    /\ strip' = ShowTransfers(leds)
    /\ last' = [by |-> "show", proc |-> FALSE]
    /\ UNCHANGED <<num_led, global_brightness, rgb, leds, spiOpen, closes,
                   calls, ctor, call>>
    /\ UNCH_reactor

NextDriver ==
    \/ \E i \in -1..num_led, c \in DrvColours : DrvSetPixel(i, c)
    \/ DrvShow

SpecDriver == InitDriver /\ [][NextDriver]_vars

----------------------------------------------------------------------------
(* set_pixel alone: every constructor brightness, channel order and
   bright_percent, on a fresh buffer and on one already painted *)

Orders == {"rgb", "rbg", "grb", "gbr", "brg", "bgr"}
PixColour == <<10, 20, 30>>
PixFill == <<7, 8, 9>>

RECURSIVE FillFrom(_, _, _, _, _)
\* set_pixel(i, c) at full bright_percent for every pixel from i on
FillFrom(buf, n, gb, order, i) ==
    IF i >= n THEN buf
    ELSE FillFrom(SetPixel(buf, n, gb, order, i, PixFill[1], PixFill[2],
                           PixFill[3], 100), n, gb, order, i + 1)

InitPixel ==
    /\ num_led \in 0..MaxPix
    /\ \E o \in Orders \cup {"xyz"}, g \in 0..MaxRequest :
           ctor = [order |-> o, brightness |-> g]
    /\ global_brightness = ClampBrightness(ctor.brightness)
    /\ rgb = OrderOffsets(ctor.order)
    /\ \E painted \in BOOLEAN :
           leds = IF painted
                  THEN FillFrom(InitBuffer(num_led), num_led,
                                global_brightness, rgb, 0)
                  ELSE InitBuffer(num_led)
    /\ strip = <<>>
    /\ mainpc = "pixel"
    /\ InitReactor

PixSetPixel(i, bp) ==
    /\ mainpc = "pixel"
    /\ ~call.done
    /\ leds' = SetPixel(leds, num_led, global_brightness, rgb, i,
                        PixColour[1], PixColour[2], PixColour[3], bp)
    /\ call' = [done |-> TRUE, led_num |-> i, colour |-> PixColour,
                bp |-> bp, before |-> leds]
    /\ last' = [by |-> "set_pixel", proc |-> FALSE]
    /\ UNCHANGED <<num_led, global_brightness, rgb, strip, spiOpen, closes,
                   calls, ctor>>
    /\ UNCH_reactor

NextPixel == \E i \in -1..num_led, bp \in 0..MaxPercent : PixSetPixel(i, bp)

SpecPixel == InitPixel /\ [][NextPixel]_vars

----------------------------------------------------------------------------
(* Properties *)

\* delayed tasks that are scheduled and have neither fired nor been cancelled
Outstanding ==
    (IF errTask \in {"created", "sleeping"} THEN 1 ELSE 0) + Len(offTasks)

RECURSIVE Dedupe(_)
\* a sequence of frames without the repetitions of the colour just shown
Dedupe(fs) ==
    IF Len(fs) <= 1 THEN fs
    ELSE IF fs[1] = fs[2] THEN Dedupe(Tail(fs))
    ELSE <<fs[1]>> \o Dedupe(Tail(fs))

IsPrefix(a, b) == Len(a) <= Len(b) /\ a = SubSeq(b, 1, Len(a))

RECURSIVE Flatten(_)
Flatten(ss) == IF ss = <<>> THEN <<>> ELSE Head(ss) \o Flatten(Tail(ss))

\* C1: preemption -- a delayed action (the error revert or the synthesize
\* turn-off) that was scheduled before an event that has since been handled
\* never applies its post-delay effect.
C1_Preemption == fired # "stale"

\* C2: a reactor never has more than one outstanding delayed task, counting
\* the error-revert task and the synthesize turn-off tasks together.
C2_AtMostOneTask == Outstanding <= 1

\* C3: when the error-revert task ends, by firing or by cancellation, the
\* frame it pushes is yellow if processing was true at that moment and black
\* otherwise; it never pushes black while processing is true.
C3_RevertReadsFlag ==
    (mainpc = "serving" /\ last.by \in {"errfire", "errcancel"})
        => Shows(IF last.proc THEN _YELLOW ELSE _BLACK)

\* C4: stateful revert -- after error(stt-no-text-recognized) was handled
\* with processing=true and streaming-started was handled before the revert
\* fired, the display is yellow, processing is true and no black frame was
\* pushed since the error event, until the next event is handled.
C4_StatefulRevert ==
    (mainpc = "serving" /\ rev = "ss")
        => (Shows(_YELLOW) /\ is_processing /\ ~blackSince)

\* C5: end-to-end scenario -- while the events handled by a fresh reactor
\* follow satellite-connected, wake-detected, streaming-started, synthesize,
\* run-satellite, the colours shown (repeated frames of one colour counted
\* once) follow green, black, green, black, blue, yellow, black; after
\* run-satellite the whole sequence has been shown and the reactor is black
\* with processing=false, whether the synthesize timer fired before
\* run-satellite, after it, or not yet.
C5_EndToEnd ==
    (mainpc = "serving" /\ idx >= 0) =>
        /\ IsPrefix(Dedupe(frames), E2EColours)
        /\ (idx = 1 /\ pc = "idle") => Dedupe(frames) = SubSeq(E2EColours, 1, 4)
        /\ (idx = 2) => Dedupe(frames) = SubSeq(E2EColours, 1, 5)
        /\ (idx = 3) => Dedupe(frames) = SubSeq(E2EColours, 1, 6)
        /\ (idx = 4) => Len(Dedupe(frames)) >= 6
        /\ (idx = 5) => /\ Dedupe(frames) = E2EColours
                        /\ Shows(_BLACK)
                        /\ ~is_processing

C5_Witness ==
    /\ mainpc = "serving" /\ idx = 5 /\ offTasks = <<>> /\ fired = "stale"
    /\ Len(frames) = 8

\* C6: once a wake-detected event has been handled, and until the next event
\* is handled, all LEDs are blue and processing=true (stated for the runs in
\* which no superseded turn-off task has fired, which C1 covers).
C6_WakeBlue ==
    (mainpc = "serving" /\ pc = "idle" /\ lastEv.type = "detection"
     /\ fired # "stale")
        => (Shows(_BLUE) /\ is_processing)

\* C7: shutdown -- on every exit path of main() every LED of the pixel
\* buffer is (0,0,0) and the bus handle has been released exactly once.
C7_Shutdown ==
    mainpc \in {"returned", "raised"} => (AllOff(leds) /\ closes = 1)

\* C8: a wake-detected event whose audio cue failed is handled to the end:
\* handle_event returns True and, when it returns, the display is blue and
\* processing=true.
C8_CueIsolated ==
    (ret.type = "detection" /\ ret.audio = "failed")
        => (ret.value = "True" /\ ret.blue /\ ret.proc)

\* C9: the audio cue is fire-and-forget -- handle_event is never suspended
\* on the audio player while the player is running.
C9_FireAndForget == ~(pc = "communicate" /\ player = "running")

\* C10: show() sends 4 bytes 0x00, then the pixel buffer unchanged and in
\* order in transfers of at most 32 bytes (all but the last exactly 32, none
\* empty), then 4 bytes 0xFF, and leaves the pixel buffer as it was.
C10_ShowFraming ==
    (mainpc = "driver" /\ last.by = "show") =>
        LET n == Len(strip)
            body == SubSeq(strip, 2, n - 1)
        IN  /\ n >= 2
            /\ strip[1] = <<0, 0, 0, 0>>
            /\ strip[n] = <<255, 255, 255, 255>>
            /\ Flatten(body) = leds
            /\ Len(leds) = 4 * num_led
            /\ \A k \in 1..Len(body) :
                  /\ Len(body[k]) >= 1
                  /\ Len(body[k]) <= 32
                  /\ k < Len(body) => Len(body[k]) = 32

C10_Witness ==
    /\ mainpc = "driver" /\ last.by = "show" /\ calls = MaxCalls
    /\ Len(strip) >= 4
    /\ Len(strip[Len(strip) - 1]) < 32
    /\ leds # InitBuffer(num_led)

\* the smallest k with 100 * k >= x: the ceiling of x / 100
CeilOf(x) == CHOOSE k \in 0..(x + 1) : 100 * k >= x /\ 100 * k < x + 100

\* a set_pixel call on an index of the strip has just been made
PixInRange ==
    /\ mainpc = "pixel" /\ call.done
    /\ call.led_num >= 0 /\ call.led_num < num_led

\* C11: for bright_percent in 0..100, a brightness cap in 0..31 and an index
\* of the strip, set_pixel stores min(31, ceil(percent * cap / 100)) | 0xE0 as
\* the leading byte of the pixel
C11_LeadingByte ==
    (PixInRange /\ call.bp <= 100 /\ global_brightness \in 0..31) =>
        leds[4 * call.led_num + 1] =
            Min(31, CeilOf(call.bp * global_brightness)) + 224

C11_Witness ==
    /\ PixInRange /\ call.bp = 50 /\ global_brightness = 31
    /\ call.led_num = 1
    /\ leds[5] = 240
    /\ call.before[5] # 240

\* C12: brightness saturates: the cap is at most 31 after construction, and
\* for any bright_percent, also above 100, the 5-bit field stored by set_pixel
\* is min(31, ceil(percent * cap / 100)), never that value modulo 32
C12_Saturates ==
    /\ mainpc = "pixel" => global_brightness = Min(31, ctor.brightness)
    /\ PixInRange =>
           leds[4 * call.led_num + 1] - 224 =
               Min(31, CeilOf(call.bp * global_brightness))

\* offsets of red, green and blue behind the brightness byte, per ordering
ChannelOffsets ==
    [rgb |-> [r |-> 3, g |-> 2, b |-> 1], rbg |-> [r |-> 3, g |-> 1, b |-> 2],
     grb |-> [r |-> 2, g |-> 3, b |-> 1], gbr |-> [r |-> 2, g |-> 1, b |-> 3],
     brg |-> [r |-> 1, g |-> 3, b |-> 2], bgr |-> [r |-> 1, g |-> 2, b |-> 3]]

\* C13: for each of the six orderings and every index i of the strip,
\* set_pixel(i, r, g, b) stores r, g and b in three distinct slots among
\* offsets 4i+1..4i+3 as the ordering prescribes, the brightness byte at
\* offset 4i, and changes no byte of any other pixel
C13_ChannelOrder ==
    (PixInRange /\ ctor.order \in Orders) =>
        LET base == 4 * call.led_num + 1
            off == ChannelOffsets[ctor.order]
        IN  /\ {off.r, off.g, off.b} = {1, 2, 3}
            /\ leds[base + off.r] = call.colour[1]
            /\ leds[base + off.g] = call.colour[2]
            /\ leds[base + off.b] = call.colour[3]
            /\ leds[base] \in 224..255
            /\ Len(leds) = Len(call.before)
            /\ \A k \in 1..Len(leds) :
                   k \notin base..(base + 3) => leds[k] = call.before[k]

C13_Witness ==
    /\ PixInRange /\ ctor.order = "gbr" /\ num_led = 2 /\ call.led_num = 1
    /\ call.before = <<255, 8, 7, 9, 255, 8, 7, 9>>
    /\ leds = <<255, 8, 7, 9, 255, 20, 10, 30>>

\* C14: for an index below 0 or at least N, set_pixel leaves every byte of
\* the pixel buffer unchanged
C14_OutOfRange ==
    (/\ mainpc = "pixel" /\ call.done
     /\ (call.led_num < 0 \/ call.led_num >= num_led)) =>
        leds = call.before

C14_Witness ==
    /\ mainpc = "pixel" /\ call.done /\ call.led_num = -1 /\ num_led = 2
    /\ call.before # InitBuffer(num_led)
    /\ leds = call.before

\* the events handle_event has no branch for
NoOpEvent(e) ==
    \/ e.type = "other"
    \/ e.type = "error" /\ e.code # "stt-no-text-recognized"
    \/ e.type = "streaming-started" /\ ~is_processing

\* C15: handling an event of an unrecognized type, an error event with
\* another code, or streaming-started while processing is false writes no
\* colour, schedules no delayed task, leaves the processing flag unchanged
\* and returns normally
C15_NoOps ==
    [][\A e \in Events :
          (NoOpEvent(e) /\ HandleEvent(e)) =>
              /\ UNCHANGED <<leds, strip, last, is_processing>>
              /\ errTask' # "created"
              /\ Len(offTasks') = Len(offTasks)
              /\ pc' = "idle"
              /\ ret' = [type |-> e.type, value |-> "True", audio |-> "na",
                         blue |-> strip = BlueStrip, proc |-> is_processing]
      ]_vars

C15_Witness ==
    /\ mainpc = "serving" /\ pc = "idle"
    /\ lastEv = Ev("streaming-started", "") /\ ret.type = "streaming-started"
    /\ ~is_processing
    /\ errTask = "cancelling"
    /\ Shows(_RED)

\* handle_event is between the first and the last frame of a
\* satellite-connected or satellite-disconnected animation
InAnimation ==
    /\ mainpc = "serving"
    /\ \/ pc = "flash_on"
       \/ pc = "flash_off" /\ flashIter + 1 < FlashRounds
       \/ pc = "disc"

\* C16: blocking animations are not interleaved: between the first and the
\* last frame of the satellite-connected flash (green, black, green, black)
\* and of the satellite-disconnected flash (red, black, ending with
\* processing false) the frame on the strip is the handler's own, never one
\* pushed by a delayed task (here for the error task alone: the runs in
\* which a superseded turn-off task has fired are set aside)
C16_NotInterleaved ==
    /\ (InAnimation /\ fired # "stale") =>
           /\ last.by = "handler"
           /\ pc = "flash_on" => Shows(_GREEN)
           /\ pc = "flash_off" => Shows(_BLACK)
           /\ pc = "disc" => Shows(_RED)
    /\ (mainpc = "serving" /\ pc = "idle"
           /\ ret.type = "satellite-disconnected") => ~ret.proc

\* C17 (its liveness half, under SpecLive): when no event follows a
\* synthesize event the turn-off fires and, until the service ends, the
\* reactor stays at processing = false with the display black
C17_TurnOffFires ==
    (quiet /\ lastEv.type = "synthesize") ~>
        [](Ended \/ (~is_processing /\ Shows(_BLACK) /\ offTasks = <<>>))

\* C17 (its liveness half, under SpecLive): when no event follows an
\* error(stt-no-text-recognized) event the error task ends and, until the
\* service ends, the display is not red
C17_RevertFires ==
    (quiet /\ lastEv = Ev("error", "stt-no-text-recognized")) ~>
        [](Ended \/ (errTask = "done" /\ ~Shows(_RED)))

\* C17 (its safety half): after an error(stt-no-text-recognized) event that
\* no other event has followed, the display shows red from the start of the
\* error task until its revert fires
C17_RedUntilRevert ==
    (/\ mainpc = "serving"
     /\ lastEv = Ev("error", "stt-no-text-recognized")
     /\ errTask = "sleeping") => Shows(_RED)

\* C18: in every reachable state, also at the suspension points inside a
\* handler or a delayed task, a yellow strip implies processing = true
C18_YellowWhileProcessing == Shows(_YELLOW) => is_processing

C18_Witness ==
    /\ Shows(_YELLOW) /\ is_processing
    /\ pc = "flash_on" /\ last.by = "errcancel"

\* every pixel of a buffer of 4-byte pixels has the same four bytes
Uniform(buf) ==
    \A i, j \in 0..((Len(buf) \div 4) - 1) :
        \A k \in 1..4 : buf[4 * i + k] = buf[4 * j + k]

\* C19: colour changes are indivisible with respect to every handler and
\* delayed task, those of other reactors on the same driver included: the
\* pixel buffer never holds two colours, and the pixel data of every frame
\* sent (the transfer behind the start frame) is of one colour
C19_Serialized ==
    /\ Uniform(leds)
    /\ Len(strip) >= 2 => (Len(strip[2]) = 4 * NUM_LEDS /\ Uniform(strip[2]))

C19_Witness ==
    /\ mainpc = "serving" /\ pc = "flash_on" /\ last.by = "other"
    /\ Shows(_YELLOW) /\ ~is_processing
    /\ errTask = "cancelling"

\* C20: no bus use after release: once the shutdown path has called
\* cleanup(), no task calls show() and the pixel buffer stays all-off; this
\* holds for an error task and a turn-off task pending at shutdown
C20_NoUseAfterRelease ==
    (Ended /\ closes >= 1) => (last.by # "teardown" /\ AllOff(leds))

====
